---- MODULE Spec2Model ----
(***************************************************************************)
(* Model of ruwai_check_v2.py, the Ruwai datalogger service-run script.    *)
(* The script is one straight-line session: it runs from top to bottom and *)
(* has no exception handler, so an exception raised by any call ends the   *)
(* run at that call (pc = "aborted", failure = the call that raised).      *)
(*                                                                         *)
(* Text is modelled in two ways: values that the script only concatenates  *)
(* (serials, station names, paths) are strings; values that it inspects    *)
(* character by character (file names given to split("."), the output of   *)
(* du given to int()) are sequences of one-character strings.              *)
(***************************************************************************)
EXTENDS Integers, Sequences, FiniteSets, TLC

VARIABLES
    pc,          \* position of the script
    failure,     \* the call whose exception ended the run, or "none"
    registry,    \* the dictionary `networks`, in iteration order
    sn,          \* Ruwai S/N read from the device
    network,     \* resolved network
    station,     \* resolved station
    option,      \* answer to the BEFORE/AFTER prompt
    today,       \* datetime.today() read for sr_dir
    year,        \* datetime.today().year read for the path
    local_dest,  \* archive root
    log_dest,    \* directory for the log files
    all_logs,    \* listing of /var/log/ on the device
    logs,        \* the entries selected for download
    copied,      \* the entries fetched so far, in order
    pid,         \* output of pidof ruwaicom
    s1,          \* first size of mseed_tmp
    s2,          \* second size of mseed_tmp
    samples,     \* number of size queries sent
    verdict,     \* "none", "LOGGING_ACTIVE" or "LOGGING_INACTIVE"
    dl_option,   \* answer to the download prompt
    cmds,        \* calls made on the ssh connection, in order
    log,         \* messages written with logger.info, in order
    runlog       \* where ruwai_check.log is: "cwd" or "local_dest"

vars == <<pc, failure, registry, sn, network, station, option, today, year,
          local_dest,
          log_dest, all_logs, logs, copied, pid, s1, s2, samples, verdict,
          dl_option, cmds, log, runlog>>

-----------------------------------------------------------------------------
(* Bounds of the model *)

\* sizes of mseed_tmp are 0..MaxKB kB, plus the two sizes of the spec example
MaxKB == 2
\* the registries of SpecResolve have at most MaxNets network dictionaries
MaxNets == 2

-----------------------------------------------------------------------------
(* INPUT PARAMETERS *)

SBK_stations ==
    [s \in {"00006", "0000B", "00009", "00008", "00004"} |->
        CASE s = "00006" -> "OBS"
          [] s = "0000B" -> "PIL"
          [] s = "00009" -> "MOR"
          [] s = "00008" -> "MIT"
          [] s = "00004" -> "STO"]

KITZ_stations ==
    [s \in {"00007", "0000A", "00005"} |->
        CASE s = "00007" -> "BH1"
          [] s = "0000A" -> "BH2"
          [] s = "00005" -> "BH3"]

NOW_stations ==
    [s \in {"0000F", "0000G", "0000H", "0000K", "0000J", "0000I"} |->
        CASE s = "0000F" -> "NUKL"
          [] s = "0000G" -> "ZACP"
          [] s = "0000H" -> "ZACR"
          [] s = "0000K" -> "PATW"
          [] s = "0000J" -> "PATE"
          [] s = "0000I" -> "PATT"]

\* a Python dict iterates in insertion order: a sequence of (key, value)
networks ==
    << [name |-> "SBK_stations",  stations |-> SBK_stations],
       [name |-> "KITZ_stations", stations |-> KITZ_stations],
       [name |-> "NOW_stations",  stations |-> NOW_stations] >>

-----------------------------------------------------------------------------
(* Inputs of a session *)

\* contents of /etc/ruwai_serial: registered in each network, and unregistered
Serials == {"00006", "0000A", "0000I", "0000Z"}

\* answers typed at the BEFORE/AFTER prompt
PhaseInputs == {"1", "2", "3", ""}

\* answers typed at the download prompt
DownloadInputs == {"0", "1", "2", "3", "4", ""}

\* pathlib.Path().absolute()
Cwd == "/home/service"

\* dates returned by datetime.today()
Dates ==
    { [year |-> 2024, month |-> 3,  day |-> 1],
      [year |-> 2024, month |-> 12, day |-> 31] }

\* outputs of pidof ruwaicom
Pids == {"", "812"}

-----------------------------------------------------------------------------
(* Text helpers *)

\* str() of a sequence of characters
RECURSIVE Str(_)
Str(cs) == IF cs = <<>> THEN "" ELSE Head(cs) \o Str(Tail(cs))

DigitCh(d) ==
    CASE d = 0 -> "0" [] d = 1 -> "1" [] d = 2 -> "2" [] d = 3 -> "3"
      [] d = 4 -> "4" [] d = 5 -> "5" [] d = 6 -> "6" [] d = 7 -> "7"
      [] d = 8 -> "8" [] d = 9 -> "9"

\* the decimal digits of a natural number, most significant first
RECURSIVE DigitsSeq(_)
DigitsSeq(n) ==
    IF n < 10 THEN <<DigitCh(n)>>
    ELSE Append(DigitsSeq(n \div 10), DigitCh(n % 10))

\* str(n) for a natural number
IntStr(n) == Str(DigitsSeq(n))

\* %m and %d of strftime: two digits, zero padded
Pad2(n) == DigitCh((n \div 10) % 10) \o DigitCh(n % 10)

\* %Y of strftime: four digits, zero padded
Pad4(n) ==
    DigitCh((n \div 1000) % 10) \o DigitCh((n \div 100) % 10) \o Pad2(n)

\* datetime.strftime("%Y%m%d")
StrfYmd(d) == Pad4(d.year) \o Pad2(d.month) \o Pad2(d.day)

IsLeap(y) == (y % 4 = 0 /\ y % 100 # 0) \/ y % 400 = 0

DaysIn(y, m) ==
    IF m = 2 THEN (IF IsLeap(y) THEN 29 ELSE 28)
    ELSE IF m \in {4, 6, 9, 11} THEN 30 ELSE 31

\* the calendar day after d
NextDay(d) ==
    IF d.day < DaysIn(d.year, d.month)
    THEN [d EXCEPT !.day = d.day + 1]
    ELSE IF d.month < 12
         THEN [d EXCEPT !.month = d.month + 1, !.day = 1]
         ELSE [year |-> d.year + 1, month |-> 1, day |-> 1]

\* pathlib.Path(c1, c2, ...) rendered with str(): the components joined
\* with "/" (no component of the script starts with "/")
RECURSIVE JoinPath(_)
JoinPath(cs) ==
    IF Len(cs) = 1 THEN cs[1]
    ELSE JoinPath(SubSeq(cs, 1, Len(cs) - 1)) \o "/" \o cs[Len(cs)]

\* f.split(".")[0]: the characters before the first "."
RECURSIVE FirstSegment(_)
FirstSegment(f) ==
    IF f = <<>> \/ Head(f) = "." THEN <<>>
    ELSE <<Head(f)>> \o FirstSegment(Tail(f))

IsSpace(c) == c \in {" ", "\n", "\t"}

RECURSIVE LStrip(_)
LStrip(cs) ==
    IF cs # <<>> /\ IsSpace(Head(cs)) THEN LStrip(Tail(cs)) ELSE cs

RECURSIVE RStrip(_)
RStrip(cs) ==
    IF cs # <<>> /\ IsSpace(cs[Len(cs)])
    THEN RStrip(SubSeq(cs, 1, Len(cs) - 1)) ELSE cs

IsDigit(c) == c \in {"0", "1", "2", "3", "4", "5", "6", "7", "8", "9"}

DigitVal(c) ==
    CASE c = "0" -> 0 [] c = "1" -> 1 [] c = "2" -> 2 [] c = "3" -> 3
      [] c = "4" -> 4 [] c = "5" -> 5 [] c = "6" -> 6 [] c = "7" -> 7
      [] c = "8" -> 8 [] c = "9" -> 9

\* the digits of the text given to int(): surrounding whitespace and one
\* leading sign removed
IntBody(cs) ==
    LET t == RStrip(LStrip(cs))
    IN  IF t # <<>> /\ Head(t) \in {"+", "-"} THEN Tail(t) ELSE t

IntSign(cs) ==
    LET t == RStrip(LStrip(cs))
    IN  IF t # <<>> /\ Head(t) = "-" THEN -1 ELSE 1

\* int(text) returns a value; otherwise it raises ValueError
IntOk(cs) ==
    /\ IntBody(cs) # <<>>
    /\ \A i \in 1..Len(IntBody(cs)) : IsDigit(IntBody(cs)[i])

RECURSIVE DigitsVal(_)
DigitsVal(ds) ==
    IF ds = <<>> THEN 0
    ELSE 10 * DigitsVal(SubSeq(ds, 1, Len(ds) - 1)) + DigitVal(ds[Len(ds)])

\* int(text)
IntVal(cs) == IntSign(cs) * DigitsVal(IntBody(cs))

-----------------------------------------------------------------------------
(* More inputs: the listing of /var/log/ and the output of du *)

ruwai == <<"r", "u", "w", "a", "i">>

ruwai_log == ruwai \o <<".", "l", "o", "g">>
ruwai_log_1 == ruwai_log \o <<".", "1">>
system_log == <<"s", "y", "s", "t", "e", "m", ".", "l", "o", "g">>
ruwaicom_txt == ruwai \o <<"c", "o", "m", ".", "t", "x", "t">>
ruwai_dot == ruwai \o <<".">>
dot_ruwai == <<".">> \o ruwai
ruwa_log == <<"r", "u", "w", "a", ".", "l", "o", "g">>

ExampleListing == <<ruwai_log, ruwai_log_1, system_log, ruwaicom_txt>>

\* results of ssh.list_files_in_directory("/var/log/")
Listings ==
    { ExampleListing,
      <<dot_ruwai, ruwai, ruwa_log, ruwai_dot>>,
      <<system_log>> }

\* sizes of mseed_tmp in kB
Sizes == (0..MaxKB) \cup {100, 150}

\* outputs of "du -s ... | cut -f1": a size, nothing, or no number
DuOutputs == {DigitsSeq(n) : n \in Sizes} \cup {<<>>, <<"?">>}

-----------------------------------------------------------------------------
(* Identity resolution, lines 156-163 *)

unknown == [network |-> "unknown_network", station |-> "unknown_station"]

\* the loop that stops at the first dictionary holding the serial
RECURSIVE LookupBreakFrom(_, _, _)
LookupBreakFrom(reg, s, i) ==
    IF i > Len(reg) THEN unknown
    ELSE IF s \in DOMAIN reg[i].stations
         THEN [network |-> reg[i].name, station |-> reg[i].stations[s]]
         ELSE LookupBreakFrom(reg, s, i + 1)

LookupBreak(reg, s) == LookupBreakFrom(reg, s, 1)

\* the loop that assigns the station and forgets the network
RECURSIVE LookupNoNetworkFrom(_, _, _, _)
LookupNoNetworkFrom(reg, s, i, acc) ==
    IF i > Len(reg) THEN acc
    ELSE IF s \in DOMAIN reg[i].stations
         THEN LookupNoNetworkFrom(reg, s, i + 1,
                  [acc EXCEPT !.station = reg[i].stations[s]])
         ELSE LookupNoNetworkFrom(reg, s, i + 1, acc)

LookupNoNetwork(reg, s) == LookupNoNetworkFrom(reg, s, 1, unknown)

\* for n in networks: if sn in networks[n]: network = n; station = ...
\* i is the next dictionary to visit, acc the values assigned so far
RECURSIVE LookupFrom(_, _, _, _)
LookupFrom(reg, s, i, acc) ==
    IF i > Len(reg) THEN acc
    ELSE IF s \in DOMAIN reg[i].stations
         THEN LookupFrom(reg, s, i + 1,
                  [network |-> reg[i].name, station |-> reg[i].stations[s]])
         ELSE LookupFrom(reg, s, i + 1, acc)

Lookup(reg, s) == LookupFrom(reg, s, 1, unknown)

-----------------------------------------------------------------------------
(* Directory names, lines 182-210 *)

SrDir(d) == "sr" \o StrfYmd(d)

\* the station directory without the suffix of the service phase
StDirNoSuffix(sta, s, opt) == sta \o "_sn_" \o s

StDir(sta, s, opt) ==
    IF opt = "1" THEN sta \o "_sn_" \o s \o "_1_BEX"
    ELSE IF opt = "2" THEN sta \o "_sn_" \o s \o "_2_AEX"
    ELSE sta \o "_sn_" \o s

\* y is datetime.today().year, read after the date of sr_dir
LocalDest(y, net, sr_dir, st_dir) ==
    JoinPath(<<Cwd, IntStr(y), net, sr_dir, st_dir>>)

LogDest(dest) == JoinPath(<<dest, "var_log">>)

-----------------------------------------------------------------------------
(* Selection of the log files, line 216 *)

\* a test by prefix instead of by first segment
IsRuwaiLogStartsWith(f) ==
    Len(f) >= Len(ruwai) /\ SubSeq(f, 1, Len(ruwai)) = ruwai

IsRuwaiLog(f) == FirstSegment(f) = ruwai

SelectLogs(all) == SelectSeq(all, IsRuwaiLog)

-----------------------------------------------------------------------------
(* Activity verdict, lines 243-250 *)

\* the comparison with <= in place of <
VerdictNotStrict(a, b) ==
    IF a <= b THEN "LOGGING_ACTIVE" ELSE "LOGGING_INACTIVE"

Verdict(a, b) == IF a < b THEN "LOGGING_ACTIVE" ELSE "LOGGING_INACTIVE"

du_cmd == "du -s /home/ruwai/ruwaicom/mseed_tmp | cut -f1"

Call(op, arg) == [op |-> op, arg |-> arg]

\* an uncaught exception ends the script at the call that raised it
Abort(call) ==
    /\ pc' = "aborted"
    /\ failure' = call

-----------------------------------------------------------------------------
(* The session *)

NoDate == [year |-> 0, month |-> 0, day |-> 0]

\* the values of the script's names before their first assignment
Unset ==
    /\ sn = "" /\ network = "" /\ station = "" /\ option = ""
    /\ today = NoDate /\ year = 0
    /\ local_dest = "" /\ log_dest = ""
    /\ all_logs = <<>> /\ logs = <<>> /\ copied = <<>>
    /\ pid = "" /\ s1 = 0 /\ s2 = 0 /\ samples = 0 /\ verdict = "none"
    /\ dl_option = ""

\* lines 109-141: the log file is open in the working directory
Init ==
    /\ pc = "connect"
    /\ failure = "none"
    /\ registry = networks
    /\ Unset
    /\ cmds = <<>>
    /\ log = <<"Welcome to the Ruwai service script.">>
    /\ runlog = "cwd"

\* lines 144-148
Connect ==
    /\ pc = "connect"
    /\ pc' = "identify"
    /\ cmds' = cmds \o <<Call("open_connection", "192.168.20.100"),
                         Call("login", "ruwai")>>
    /\ log' = Append(log,
                 "...ssh-connection with Ruwai datalogger established.")
    /\ UNCHANGED <<failure, registry, sn, network, station, option,
                   today, year, local_dest, log_dest, all_logs, logs, copied, pid, s1, s2,
                   samples, verdict, dl_option, runlog>>

\* lines 144-146: open_connection or login raises
ConnectFail ==
    /\ pc = "connect"
    /\ \E call \in {"open_connection", "login"} :
          /\ Abort(call)
          /\ cmds' = IF call = "login"
                     THEN cmds \o <<Call("open_connection", "192.168.20.100"),
                                    Call("login", "ruwai")>>
                     ELSE Append(cmds,
                                 Call("open_connection", "192.168.20.100"))
    /\ UNCHANGED <<registry, sn, network, station, option, today, year, local_dest,
                   log_dest, all_logs, logs, copied, pid, s1, s2, samples,
                   verdict, dl_option, log, runlog>>

\* lines 155-168
ResolveIdentity ==
    /\ pc = "identify"
    /\ \E s \in Serials :
          LET id == Lookup(registry, s)
          IN  /\ sn' = s
              /\ network' = id.network
              /\ station' = id.station
              /\ log' = Append(log,
                    IF id.station = "unknown_station"
                    THEN "...the Ruwai S/N does not fit to any station in the dictionaries."
                    ELSE "...you are at the " \o id.station \o " station ("
                         \o id.network \o ").")
    /\ pc' = "path"
    /\ cmds' = Append(cmds, Call("execute_command", "cat /etc/ruwai_serial"))
    /\ UNCHANGED <<failure, registry, option, today, year, local_dest, log_dest, all_logs,
                   logs, copied, pid, s1, s2, samples, verdict, dl_option,
                   runlog>>

\* lines 184-193: the messages of the service phase
PhaseLog(opt) ==
    IF opt = "1"
    THEN <<"This is the service BEFORE the sd card exchange.">>
    ELSE IF opt = "2"
         THEN <<"This is the service AFTER the sd card exchange.">>
         ELSE <<>>

\* lines 172-212; d1 is datetime.today() of line 182, d2 that of line 198
BuildPath ==
    /\ pc = "path"
    /\ \E opt \in PhaseInputs, d1 \in Dates :
       \E d2 \in {d1, NextDay(d1)} :
          LET dest == LocalDest(d2.year, network, SrDir(d1),
                                StDir(station, sn, opt))
          IN  /\ option' = opt
              /\ today' = d1
              /\ year' = d2.year
              /\ local_dest' = dest
              /\ log_dest' = LogDest(dest)
              /\ log' = log \o PhaseLog(opt) \o
                     <<"...directory structure on local machine done.">>
    /\ pc' = "list"
    /\ UNCHANGED <<failure, registry, sn, network, station, all_logs, logs,
                   copied, pid, s1, s2, samples, verdict, dl_option, cmds,
                   runlog>>

\* lines 172-203: path.mkdir raises
BuildPathFail ==
    /\ pc = "path"
    /\ \E opt \in PhaseInputs, d1 \in Dates :
       \E d2 \in {d1, NextDay(d1)} :
          /\ option' = opt
          /\ today' = d1
          /\ year' = d2.year
          /\ log' = log \o PhaseLog(opt)
    /\ Abort("mkdir")
    /\ UNCHANGED <<registry, sn, network, station, local_dest, log_dest,
                   all_logs, logs, copied, pid, s1, s2, samples, verdict,
                   dl_option, cmds, runlog>>

\* lines 215-216
ListLogs ==
    /\ pc = "list"
    /\ \E all \in Listings :
          /\ all_logs' = all
          /\ logs' = SelectLogs(all)
    /\ pc' = "copy"
    /\ cmds' = Append(cmds, Call("list_files_in_directory", "/var/log/"))
    /\ UNCHANGED <<failure, registry, sn, network, station, option,
                   today, year, local_dest, log_dest, copied, pid, s1, s2, samples,
                   verdict, dl_option, log, runlog>>

\* the entry that the loop of line 217 fetches next
NextLog == logs[Len(copied) + 1]

\* lines 217-218: one iteration, get_file returns
CopyLog ==
    /\ pc = "copy"
    /\ Len(copied) < Len(logs)
    /\ copied' = Append(copied,
          [src |-> "/var/log/" \o Str(NextLog),
           dst |-> log_dest \o "/" \o Str(NextLog)])
    /\ cmds' = Append(cmds, Call("get_file", "/var/log/" \o Str(NextLog)))
    /\ UNCHANGED <<pc, failure, registry, sn, network, station, option,
                   today, year, local_dest, log_dest, all_logs, logs, pid, s1, s2,
                   samples, verdict, dl_option, log, runlog>>

\* lines 217-218: one iteration, get_file raises
CopyLogFail ==
    /\ pc = "copy"
    /\ Len(copied) < Len(logs)
    /\ Abort("get_file")
    /\ cmds' = Append(cmds, Call("get_file", "/var/log/" \o Str(NextLog)))
    /\ UNCHANGED <<registry, sn, network, station, option, today, year, local_dest,
                   log_dest, all_logs, logs, copied, pid, s1, s2, samples,
                   verdict, dl_option, log, runlog>>

\* lines 220-232: the loop is over, the status checks start
GetPid ==
    /\ pc = "copy"
    /\ Len(copied) = Len(logs)
    /\ \E p \in Pids :
          /\ pid' = p
          /\ log' = log \o
                <<"...all Ruwai log-files downloaded to " \o log_dest \o "/.",
                  "Ruwai status checks initiated.",
                  "Process ID of running ruwaicom software: " \o p>>
    /\ pc' = "sample1"
    /\ cmds' = Append(cmds, Call("execute_command", "pidof ruwaicom"))
    /\ UNCHANGED <<failure, registry, sn, network, station, option,
                   today, year, local_dest, log_dest, all_logs, logs, copied, s1, s2,
                   samples, verdict, dl_option, runlog>>

SizeLog(n) ==
    "The current size of the mseed_tmp/ directory is " \o IntStr(n) \o " kB."

\* lines 235-240
Sample1 ==
    /\ pc = "sample1"
    /\ cmds' = Append(cmds, Call("execute_command", du_cmd))
    /\ samples' = samples + 1
    /\ \E out \in DuOutputs :
          IF IntOk(out)
          THEN /\ s1' = IntVal(out)
               /\ log' = log \o
                     <<"Checking the current size of the mseed_tmp/ directory.",
                       SizeLog(IntVal(out))>>
               /\ pc' = "sample2"
               /\ UNCHANGED failure
          ELSE /\ Abort("int_s1")
               /\ log' = Append(log,
                     "Checking the current size of the mseed_tmp/ directory.")
               /\ UNCHANGED s1
    /\ UNCHANGED <<registry, sn, network, station, option, today, year, local_dest,
                   log_dest, all_logs, logs, copied, pid, s2, verdict,
                   dl_option, runlog>>

\* lines 241-250
Sample2 ==
    /\ pc = "sample2"
    /\ cmds' = Append(cmds, Call("execute_command", du_cmd))
    /\ samples' = samples + 1
    /\ \E out \in DuOutputs :
          IF IntOk(out)
          THEN /\ s2' = IntVal(out)
               /\ verdict' = Verdict(s1, IntVal(out))
               /\ log' = log \o
                     << SizeLog(IntVal(out)),
                        IF Verdict(s1, IntVal(out)) = "LOGGING_ACTIVE"
                        THEN "Ruwai IS logging :) "
                        ELSE "Ruwai is NOT logging :(" >>
               /\ pc' = "status"
               /\ UNCHANGED failure
          ELSE /\ Abort("int_s2")
               /\ UNCHANGED <<s2, verdict, log>>
    /\ UNCHANGED <<registry, sn, network, station, option, today, year, local_dest,
                   log_dest, all_logs, logs, copied, pid, s1, dl_option,
                   runlog>>

\* the status checks that already move the run log into the archive
StatusExtractMoveLog ==
    /\ pc = "status"
    /\ pc' = "download"
    /\ runlog' = "local_dest"
    /\ UNCHANGED <<failure, registry, sn, network, station, option, today,
                   year, local_dest, log_dest, all_logs, logs, copied, pid,
                   s1, s2, samples, verdict, dl_option, cmds, log>>

\* lines 252-320: the extracts are read from the local copies; the only
\* remote calls are df and ls
StatusExtract ==
    /\ pc = "status"
    /\ pc' = "download"
    /\ log' = log \o
          <<"SD card status:", "GPS status:", "UTC status:",
            "Last log-file output:", "Ruwai datalogger filesystem output:",
            "Current directories in /media/sd/mseed/" \o IntStr(year) \o "/:">>
    /\ cmds' = cmds \o <<Call("execute_command", "df -h"),
                         Call("execute_command", "ls /media/sd/mseed/" \o IntStr(year))>>
    /\ UNCHANGED <<failure, registry, sn, network, station, option,
                   today, year, local_dest, log_dest, all_logs, logs, copied, pid, s1, s2,
                   samples, verdict, dl_option, runlog>>

rm_log == Call("execute_command", "rm -r /media/sd/log")
rm_mseed == Call("execute_command", "rm -r /media/sd/mseed")
get_tmp == Call("get_directory", "/home/ruwai/ruwaicom/mseed_tmp")
get_media == Call("get_directory", "/media/. recursive")

\* the dispatch that clears the sd card whether or not the copy returned
DataDownloadNoGate ==
    /\ pc = "download"
    /\ \E opt \in DownloadInputs, ok \in BOOLEAN :
          /\ dl_option' = opt
          /\ log' = Append(log, "Ruwai data download")
          /\ cmds' = IF opt = "3" THEN cmds \o <<get_media, rm_log, rm_mseed>>
                     ELSE cmds
          /\ IF opt = "3" /\ ~ok
             THEN Abort("get_directory")
             ELSE pc' = "finish" /\ UNCHANGED failure
    /\ UNCHANGED <<registry, sn, network, station, option, today, year, local_dest,
                   log_dest, all_logs, logs, copied, pid, s1, s2, samples,
                   verdict, runlog>>

\* lines 326-355; ok tells whether get_directory returns or raises
DataDownload ==
    /\ pc = "download"
    /\ \E opt \in DownloadInputs, ok \in BOOLEAN :
          /\ dl_option' = opt
          /\ IF opt = "0"
             THEN /\ cmds' = cmds
                  /\ log' = log \o
                        <<"Ruwai data download",
                          "You chose download option 0: Continue without any data download.">>
                  /\ pc' = "finish"
                  /\ UNCHANGED failure
             ELSE IF opt = "1"
             THEN /\ cmds' = Append(cmds, get_tmp)
                  /\ IF ok
                     THEN /\ log' = log \o
                                <<"Ruwai data download",
                                  "You chose download option 1: Current mseed_tmp/ directory was downloaded to "
                                  \o local_dest>>
                          /\ pc' = "finish"
                          /\ UNCHANGED failure
                     ELSE /\ log' = Append(log, "Ruwai data download")
                          /\ Abort("get_directory")
             ELSE IF opt = "2"
             THEN /\ cmds' = Append(cmds, get_media)
                  /\ IF ok
                     THEN /\ log' = log \o
                                <<"Ruwai data download",
                                  "You chose download option 2: All the log and mseed directories were downloaded to "
                                  \o local_dest>>
                          /\ pc' = "finish"
                          /\ UNCHANGED failure
                     ELSE /\ log' = Append(log, "Ruwai data download")
                          /\ Abort("get_directory")
             ELSE IF opt = "3"
             THEN IF ok
                  THEN /\ cmds' = cmds \o <<get_media, rm_log, rm_mseed>>
                       /\ log' = log \o
                             <<"Ruwai data download",
                               "You chose download option 3: All the log and mseed directories were downloaded to "
                               \o local_dest \o " and the sd card was cleared.">>
                       /\ pc' = "finish"
                       /\ UNCHANGED failure
                  ELSE /\ cmds' = Append(cmds, get_media)
                       /\ log' = Append(log, "Ruwai data download")
                       /\ Abort("get_directory")
             ELSE /\ cmds' = cmds
                  /\ log' = Append(log, "Ruwai data download")
                  /\ pc' = "finish"
                  /\ UNCHANGED failure
    /\ UNCHANGED <<registry, sn, network, station, option, today, year, local_dest,
                   log_dest, all_logs, logs, copied, pid, s1, s2, samples,
                   verdict, runlog>>

\* lines 361-371
FinishUp ==
    /\ pc = "finish"
    /\ pc' = "done"
    /\ log' = Append(log, "All tasks finished.        Bye, Bye!")
    /\ runlog' = "local_dest"
    /\ UNCHANGED <<failure, registry, sn, network, station, option,
                   today, year, local_dest, log_dest, all_logs, logs, copied, pid, s1, s2,
                   samples, verdict, dl_option, cmds>>

Next ==
    \/ Connect
    \/ ConnectFail
    \/ ResolveIdentity
    \/ BuildPath
    \/ BuildPathFail
    \/ ListLogs
    \/ CopyLog
    \/ CopyLogFail
    \/ GetPid
    \/ Sample1
    \/ Sample2
    \/ StatusExtract
    \/ DataDownload
    \/ FinishUp

Spec == Init /\ [][Next]_vars

-----------------------------------------------------------------------------
(* Identity resolution over other registries *)

RSerials == {"00006", "0000A"}
RStations == {"OBS", "BH2"}

\* the keys of `networks`, by position
NetName(i) ==
    CASE i = 1 -> "SBK_stations"
      [] i = 2 -> "KITZ_stations"
      [] i = 3 -> "NOW_stations"
      [] OTHER -> "NET" \o IntStr(i) \o "_stations"

\* the station dictionaries over RSerials
StationMaps == UNION {[D -> RStations] : D \in SUBSET RSerials}

\* the registries of at most MaxNets networks
Registries ==
    UNION { { [i \in 1..n |-> [name |-> NetName(i), stations |-> m[i]]] :
                m \in [1..n -> StationMaps] } : n \in 0..MaxNets }

\* the session is connected and about to read the serial
InitResolve ==
    /\ pc = "identify"
    /\ failure = "none"
    /\ registry \in Registries
    /\ Unset
    /\ cmds = <<Call("open_connection", "192.168.20.100"),
                Call("login", "ruwai")>>
    /\ log = <<"Welcome to the Ruwai service script.",
               "...ssh-connection with Ruwai datalogger established.">>
    /\ runlog = "cwd"

NextResolve == ResolveIdentity

SpecResolve == InitResolve /\ [][NextResolve]_vars

-----------------------------------------------------------------------------
(* Properties *)

\* the stages of the script that a run has left behind
Resolved ==
    \/ pc \notin {"connect", "identify", "aborted"}
    \/ pc = "aborted" /\ failure \notin {"open_connection", "login"}

PathBuilt ==
    \/ pc \notin {"connect", "identify", "path", "aborted"}
    \/ pc = "aborted" /\ failure \notin {"open_connection", "login", "mkdir"}

HarvestComplete ==
    \/ pc \in {"sample1", "sample2", "status", "download", "finish", "done"}
    \/ pc = "aborted" /\ failure \in {"int_s1", "int_s2", "get_directory"}

SamplerComplete ==
    \/ pc \in {"status", "download", "finish", "done"}
    \/ pc = "aborted" /\ failure = "get_directory"

IsRm(c) == c \in {rm_log, rm_mseed}
IsFetch(c) == c.op = "get_directory"

\* C1: a remote delete command is issued only when the download option is
\* "3" and only after the recursive fetch of /media/. has been called and
\* has returned; a run whose fetch raised has issued no delete command.
C1_DeleteOnlyAfterFetch ==
    \A i \in 1..Len(cmds) :
        IsRm(cmds[i]) =>
            /\ dl_option = "3"
            /\ failure # "get_directory"
            /\ \E j \in 1..(i - 1) : cmds[j] = get_media

C1_Witness ==
    /\ pc = "done"
    /\ dl_option = "3"
    /\ \E i \in 1..Len(cmds) : cmds[i] = rm_log
    /\ \E i \in 1..Len(cmds) : cmds[i] = rm_mseed

\* the dictionaries of reg that hold serial s
Holders(reg, s) == {i \in 1..Len(reg) : s \in DOMAIN reg[i].stations}

UniqueSerials(reg) ==
    \A i, j \in 1..Len(reg) :
        i # j => DOMAIN reg[i].stations \cap DOMAIN reg[j].stations = {}

\* C2: when every serial is in at most one network dictionary, the resolved
\* (network, station) is the pair registered for the serial, and it is
\* ("unknown_network", "unknown_station") for a serial in no dictionary.
C2_ResolveUnique ==
    (Resolved /\ UniqueSerials(registry)) =>
        /\ \A i \in Holders(registry, sn) :
              /\ network = registry[i].name
              /\ station = registry[i].stations[sn]
        /\ Holders(registry, sn) = {} =>
              /\ network = "unknown_network"
              /\ station = "unknown_station"

C2_Witness ==
    /\ Resolved
    /\ UniqueSerials(registry)
    /\ Holders(registry, sn) = {2}
    /\ Holders(registry, "0000A") = {1}
    /\ network = "KITZ_stations"
    /\ station = "OBS"

\* the names fetched so far, as remote paths
CopiedSrc == [i \in 1..Len(copied) |-> copied[i].src]

\* the name is "ruwai" or starts with "ruwai."
SegmentIsRuwai(f) ==
    /\ Len(f) >= 5
    /\ f[1] = "r" /\ f[2] = "u" /\ f[3] = "w" /\ f[4] = "a" /\ f[5] = "i"
    /\ (Len(f) = 5 \/ f[6] = ".")

RemotePaths(fs) == [i \in 1..Len(fs) |-> "/var/log/" \o Str(fs[i])]

\* the rule of C3: the files fetched are the entries whose segment before
\* the first "." is "ruwai", each into log_dest under its own name
C3_Rule ==
    HarvestComplete =>
        /\ CopiedSrc = RemotePaths(SelectSeq(all_logs, SegmentIsRuwai))
        /\ \A i \in 1..Len(copied) :
              copied[i].dst = log_dest \o "/" \o Str(logs[i])

Suffix(opt) ==
    IF opt = "1" THEN "_1_BEX" ELSE IF opt = "2" THEN "_2_AEX" ELSE ""

\* C4: the archive root is <cwd>/<year>/<network>/sr<YYYYMMDD>/
\* <station>_sn_<serial><suffix> with suffix "_1_BEX" for answer "1",
\* "_2_AEX" for answer "2" and nothing for any other answer; the log
\* directory is the archive root plus "/var_log"; serial 00006, answer "1"
\* and 2024-03-01 give <cwd>/2024/SBK_stations/sr20240301/OBS_sn_00006_1_BEX.
C4_ArchivePath ==
    PathBuilt =>
        /\ local_dest = Cwd \o "/" \o IntStr(year) \o "/" \o network \o "/sr"
                        \o StrfYmd(today) \o "/" \o station \o "_sn_" \o sn
                        \o Suffix(option)
        /\ log_dest = local_dest \o "/var_log"
        /\ (sn = "00006" /\ option = "1" /\ year = 2024
               /\ today = [year |-> 2024, month |-> 3, day |-> 1]) =>
              local_dest =
                "/home/service/2024/SBK_stations/sr20240301/OBS_sn_00006_1_BEX"

C4_Witness ==
    /\ PathBuilt
    /\ sn = "00006"
    /\ option = "1"
    /\ today = [year |-> 2024, month |-> 3, day |-> 1]
    /\ log_dest =
         "/home/service/2024/SBK_stations/sr20240301/OBS_sn_00006_1_BEX/var_log"

\* C5: the verdict is LOGGING_ACTIVE exactly when the second size is
\* strictly greater than the first and LOGGING_INACTIVE otherwise (equal
\* sizes included); a run that passes the sampler has a verdict and has
\* sent exactly two size queries, and no run sends more than two.
C5_VerdictStrict ==
    /\ samples <= 2
    /\ SamplerComplete => verdict # "none"
    /\ verdict # "none" =>
          /\ samples = 2
          /\ verdict = "LOGGING_ACTIVE" <=> s2 > s1
          /\ verdict = "LOGGING_INACTIVE" <=> s2 <= s1

C5_Witness ==
    /\ SamplerComplete
    /\ s1 = 100
    /\ s2 = 100
    /\ verdict = "LOGGING_INACTIVE"

\* C6: when the output of a size query is not an integer, the session is
\* not aborted: it goes on to the status extracts, the download and the end.
C6_SamplerFailureIsolated ==
    failure \in {"int_s1", "int_s2"} => pc # "aborted"

\* C7: when the copy of one log file fails, the session is not aborted: it
\* goes on to the status checks.
C7_CopyFailureIsolated ==
    failure = "get_file" => pc # "aborted"

none_entry ==
    "You chose download option 0: Continue without any data download."

\* C8: for a download answer other than "0", "1", "2", "3" the download
\* step calls no fetch and no delete, and the entry it writes last in the
\* log is its own report of the answer, different from the entry of "0".
C8_UnrecognizedOptionLogged ==
    (pc = "finish" /\ dl_option \notin {"0", "1", "2", "3"}) =>
        /\ \A i \in 1..Len(cmds) : ~IsRm(cmds[i]) /\ ~IsFetch(cmds[i])
        /\ log[Len(log)] # "Ruwai data download"
        /\ log[Len(log)] # none_entry

\* the steps of the session, in the order of the script
Pos(p) ==
    CASE p = "connect"  -> 1
      [] p = "identify" -> 2
      [] p = "path"     -> 3
      [] p = "list"     -> 4
      [] p = "copy"     -> 5
      [] p = "sample1"  -> 6
      [] p = "sample2"  -> 7
      [] p = "status"   -> 8
      [] p = "download" -> 9
      [] p = "finish"   -> 10
      [] p = "done"     -> 11
      [] p = "aborted"  -> 12

\* C9: the script goes from each step to the next one of the fixed order
\* (connect, identity, path, log harvest, health check, download, run-log
\* move) or ends; no step is entered twice or after a later one; the run
\* log is moved once, by the last step, after the download step.
C9_FixedOrder ==
    [][ /\ pc' # pc => (pc' = "aborted" /\ pc # "done")
                        \/ Pos(pc') = Pos(pc) + 1
        /\ runlog' # runlog =>
              /\ pc = "finish" /\ pc' = "done"
              /\ runlog = "cwd" /\ runlog' = "local_dest"
              /\ dl_option' = dl_option
      ]_vars

C9_Witness ==
    /\ pc = "done"
    /\ runlog = "local_dest"
    /\ dl_option = "2"

Min(S) == CHOOSE x \in S : \A y \in S : x <= y
Max(S) == CHOOSE x \in S : \A y \in S : x >= y

====
